---------------------------- MODULE Spec2Model ----------------------------
(***************************************************************************)
(* Model of bot.py (dpy-voice-stalker): the record classifier              *)
(* StalkEvent.from_embed and the interval reconstruction process_events.   *)
(*                                                                         *)
(* Time is counted in whole seconds; a datetime is an integer number of    *)
(* seconds and (a - b).total_seconds() is a - b.                           *)
(***************************************************************************)
EXTENDS Integers, Sequences, FiniteSets, TLC

VARIABLES
    \* ---- process_events(evts, start_time, end_time) ----
    evts,        \* the argument evts, a sequence of StalkEvent
    start_time,  \* the argument start_time
    end_time,    \* the argument end_time
    looking_at,  \* Dict[int, datetime], kept in insertion order
    durations,   \* the list of ConnectedDuration built so far
    seen,        \* the set of user ids met so far
    idx,         \* position of the first for loop in evts
    k,           \* position of the second for loop in looking_at.items()
    pc,          \* "scan", "sweep", "done"; "idle" when process_events is not running
    \* ---- StalkEvent.from_embed(emb, target_channel) ----
    emb,             \* the embed: [description, timestamp]
    target_channel,  \* the argument target_channel
    origin,          \* how the description was written (ghost, never read by the code)
    uid,             \* the local variable uid
    type,            \* the local variable type
    chan,            \* the local variable chan
    result,          \* the value returned
    epc,             \* "match", "chan", "timestamp", "done"; "idle" when not running
    \* ---- an earlier call of process_events in the same process ----
    earlier,         \* its arguments and what it returned (ghost); <<>> when there was none
    \* ---- the list comprehension of lines 144 and 186 ----
    intervals,       \* the list it reads
    kept,            \* the list it builds
    fpos,            \* its position in intervals
    fpc,             \* "filter", "done"; "idle" when not running
    \* ---- stalk_csv(ctx, stalking_channel, channel_name, delta_hours) ----
    history,         \* the messages stalking_channel.history yields, in order
    channel_name,    \* the argument channel_name
    delta_hours,     \* the argument delta_hours
    now,             \* the local variable now
    stalk_start,     \* the local variable start_time
    events,          \* the local variable events
    stalk_durations, \* the local variable durations
    hpos,            \* position of the async for loop in history
    spc              \* "history", "process", "filter", "write"; "idle" when not running

pvars == <<evts, start_time, end_time, looking_at, durations, seen, idx, k, pc>>
evars == <<emb, target_channel, origin, uid, type, chan, result, epc>>
fvars == <<intervals, kept, fpos, fpc>>
svars == <<history, channel_name, delta_hours, now, stalk_start, events, stalk_durations,
           hpos, spc>>
vars  == <<pvars, evars, earlier, fvars, svars>>

-----------------------------------------------------------------------------
(* Bounds of the model *)

MaxEvents == 3

\* Instants fed to process_events: 0 and 1 are 12 h + 1 s and exactly 12 h
\* before 43201.
Times == {0, 1, 43201}

Users == {1, 2}

-----------------------------------------------------------------------------
(* StalkType, StalkEvent, ConnectedDuration *)

Join  == "join"
Leave == "leave"
StalkType == {Join, Leave}

StalkEvent(who, when, action) == [who |-> who, when |-> when, action |-> action]

ConnectedDuration(who, joined, left) == [who |-> who, joined |-> joined, left |-> left]

\* 60 * 60 * 12
TwelveHours == 43200

-----------------------------------------------------------------------------
(* A Python dict as the sequence of its items in insertion order *)

DictHas(d, key) == \E i \in DOMAIN d : d[i].key = key

DictGet(d, key) == d[CHOOSE i \in DOMAIN d : d[i].key = key].val

\* d[key] = val: a key already present keeps its place
DictSet(d, key, val) ==
    IF DictHas(d, key)
    THEN [i \in DOMAIN d |-> IF d[i].key = key THEN [key |-> key, val |-> val] ELSE d[i]]
    ELSE Append(d, [key |-> key, val |-> val])

\* d.pop(key), the dict that is left
DictPop(d, key) == SelectSeq(d, LAMBDA e : e.key # key)

-----------------------------------------------------------------------------
(* Text and the three regular expressions (lines 31-33).  A text is the      *)
(* sequence of its characters.  re.match anchors at the first character and  *)
(* not at the end.  Every repetition of the patterns is followed by a        *)
(* character outside its class (digits by ">", word characters by "*", "!?"  *)
(* by a digit), so the greedy match is the only one and nothing backtracks.  *)

DigitChars == <<"0", "1", "2", "3", "4", "5", "6", "7", "8", "9">>

\* \d, for the ASCII digits
Digit == {DigitChars[i] : i \in DOMAIN DigitChars}

\* \w, for the ASCII letters, digits and underscore
Word == Digit \cup {"_"} \cup {"a", "b", "c", "d", "e", "f", "g", "h", "i", "j", "k", "l", "m", "n", "o", "p", "q", "r", "s", "t", "u", "v", "w", "x", "y", "z"}
              \cup {"A", "B", "C", "D", "E", "F", "G", "H", "I", "J", "K", "L", "M", "N", "O", "P", "Q", "R", "S", "T", "U", "V", "W", "X", "Y", "Z"}

\* In all matchers a position 0 says "no match"; otherwise the result is the
\* position after what was matched.

\* a literal
MatchLit(d, p, lit) ==
    IF /\ p > 0
       /\ p + Len(lit) - 1 <= Len(d)
       /\ \A i \in 1..Len(lit) : d[p + i - 1] = lit[i]
    THEN p + Len(lit) ELSE 0

\* mutant: "<@" with no optional "!"
MatchOptNever(d, p, c) == p

\* c?
MatchOpt(d, p, c) ==
    IF p = 0 THEN 0
    ELSE IF p <= Len(d) /\ d[p] = c THEN p + 1 ELSE p

\* the end of the longest run of characters of class from p on
RunEnd(d, p, class) ==
    CHOOSE q \in p..(Len(d) + 1) :
        /\ \A i \in p..(q - 1) : d[i] \in class
        /\ q = Len(d) + 1 \/ d[q] \notin class

\* class+
MatchRun(d, p, class) ==
    IF p = 0 THEN 0
    ELSE IF RunEnd(d, p, class) > p THEN RunEnd(d, p, class) ELSE 0

\* the final "." of the patterns, not escaped: any character but a newline
MatchAny(d, p) ==
    IF p = 0 THEN 0
    ELSE IF p <= Len(d) /\ d[p] # "\n" THEN p + 1 ELSE 0

\* the text between two positions
Group(d, p, q) == SubSeq(d, p, q - 1)

NoMatch == [ok |-> FALSE, groups |-> <<>>]

\* <@!?(?P<uid>\d+)> VERB \*\*(?P<chan>\w+)\*\*.
VerbRe(d, verb) ==
    LET p1 == MatchLit(d, 1, <<"<", "@">>)
        p2 == MatchOpt(d, p1, "!")
        p3 == MatchRun(d, p2, Digit)
        p4 == MatchLit(d, p3, <<">">> \o verb \o <<"*", "*">>)
        p5 == MatchRun(d, p4, Word)
        p6 == MatchLit(d, p5, <<"*", "*">>)
        p7 == MatchAny(d, p6)
    IN  IF p7 = 0 THEN NoMatch
        ELSE [ok |-> TRUE, groups |-> <<Group(d, p2, p3), Group(d, p4, p5)>>]

JoinedVerb == <<" ", "j", "o", "i", "n", "e", "d", " ">>

LeftVerb == <<" ", "l", "e", "f", "t", " ">>

MovedVerb == <<" ", "m", "o", "v", "e", "d", " ", "f", "r", "o", "m", " ">>

ToWord == <<" ", "t", "o", " ">>

joined_re(d) == VerbRe(d, JoinedVerb)

left_re(d) == VerbRe(d, LeftVerb)

\* <@!?(?P<uid>\d+)> moved from \*\*(?P<from_chan>\w+)\*\* to \*\*(?P<to_chan>\w+)\*\*.
moved_re(d) ==
    LET p1 == MatchLit(d, 1, <<"<", "@">>)
        p2 == MatchOpt(d, p1, "!")
        p3 == MatchRun(d, p2, Digit)
        p4 == MatchLit(d, p3, <<">">> \o MovedVerb \o <<"*", "*">>)
        p5 == MatchRun(d, p4, Word)
        p6 == MatchLit(d, p5, <<"*", "*">> \o ToWord \o <<"*", "*">>)
        p7 == MatchRun(d, p6, Word)
        p8 == MatchLit(d, p7, <<"*", "*">>)
        p9 == MatchAny(d, p8)
    IN  IF p9 = 0 THEN NoMatch
        ELSE [ok |-> TRUE,
              groups |-> <<Group(d, p2, p3), Group(d, p4, p5), Group(d, p6, p7)>>]

DigitVal(c) == (CHOOSE i \in DOMAIN DigitChars : DigitChars[i] = c) - 1

\* int(uid)
RECURSIVE int(_)
int(digits) ==
    IF digits = <<>> THEN 0
    ELSE int(SubSeq(digits, 1, Len(digits) - 1)) * 10 + DigitVal(digits[Len(digits)])

\* An absent value (discord.Embed.Empty, None) is the empty sequence, a
\* present value v is <<v>>.
Empty == <<>>

None == <<>>

-----------------------------------------------------------------------------
(* process_events: the body of the first loop (lines 89-98), as a function  *)
(* of the loop state st = [looking_at, durations, seen] and the event       *)

\* mutant: looking_at.setdefault(evt.who, evt.when), the first join is kept
JoinKeepsFirst(st, evt) ==
    IF DictHas(st.looking_at, evt.who) THEN st
    ELSE [st EXCEPT !.looking_at = DictSet(@, evt.who, evt.when)]

\* looking_at[evt.who] = evt.when
JoinBranch(st, evt) ==
    [st EXCEPT !.looking_at = DictSet(@, evt.who, evt.when)]

\* mutant: looking_at[evt.who] read instead of popped
LeaveOpenKeepsJoin(st, evt) ==
    [st EXCEPT !.durations = Append(@, ConnectedDuration(evt.who,
                                       DictGet(st.looking_at, evt.who), evt.when))]

\* mutant: the twelve-hour cut-off applied to a join closed by a leave
LeaveOpenDropsLong(st, evt) ==
    IF evt.when - DictGet(st.looking_at, evt.who) > TwelveHours
    THEN [st EXCEPT !.looking_at = DictPop(@, evt.who)]
    ELSE [st EXCEPT !.looking_at = DictPop(@, evt.who),
                    !.durations  = Append(@, ConnectedDuration(evt.who,
                                             DictGet(st.looking_at, evt.who), evt.when))]

\* join = looking_at.pop(evt.who); durations.append(ConnectedDuration(evt.who, join, evt.when))
LeaveOpenBranch(st, evt) ==
    [st EXCEPT !.looking_at = DictPop(@, evt.who),
               !.durations  = Append(@, ConnectedDuration(evt.who,
                                        DictGet(st.looking_at, evt.who), evt.when))]

\* mutant: the interval starts at the leave itself
LeaveFirstFromWhen(st, evt, start) ==
    [st EXCEPT !.durations = Append(@, ConnectedDuration(evt.who, evt.when, evt.when))]

\* durations.append(ConnectedDuration(evt.who, start_time, evt.when))
LeaveFirstBranch(st, evt, start) ==
    [st EXCEPT !.durations = Append(@, ConnectedDuration(evt.who, start, evt.when))]

\* mutant: seen.add missing
MarkSeenNever(st, evt) == st

\* mutant: seen.add inside the join branch only
MarkSeenOnJoin(st, evt) ==
    IF evt.action = Join THEN [st EXCEPT !.seen = @ \cup {evt.who}] ELSE st

\* mutant: seen as one flag for all users
MarkSeenEveryone(st, evt) == [st EXCEPT !.seen = Users]

\* seen.add(evt.who)
MarkSeen(st, evt) == [st EXCEPT !.seen = @ \cup {evt.who}]

\* mutant: the third branch taken without looking at seen
ScanEventSeenUnchecked(st, evt, start) ==
    MarkSeen(IF evt.action = Join THEN JoinBranch(st, evt)
             ELSE IF DictHas(st.looking_at, evt.who) THEN LeaveOpenBranch(st, evt)
             ELSE LeaveFirstBranch(st, evt, start),
             evt)

ScanEvent(st, evt, start) ==
    MarkSeen(IF evt.action = Join THEN JoinBranch(st, evt)
             ELSE IF DictHas(st.looking_at, evt.who) THEN LeaveOpenBranch(st, evt)
             ELSE IF evt.who \notin st.seen THEN LeaveFirstBranch(st, evt, start)
             ELSE st,
             evt)

(* the body of the second loop (lines 100-104), for one item of looking_at *)

\* mutant: >= in place of >
StaleAtBoundary(join, end) == end - join >= TwelveHours

\* (end_time - join).total_seconds() > (60 * 60 * 12)
Stale(join, end) == end - join > TwelveHours

\* mutant: the two ends of the interval exchanged
SweepItemSwapped(durs, item, end) ==
    IF Stale(item.val, end) THEN durs
    ELSE Append(durs, ConnectedDuration(item.key, end, item.val))

SweepItem(durs, item, end) ==
    IF Stale(item.val, end) THEN durs
    ELSE Append(durs, ConnectedDuration(item.key, item.val, end))

(* process_events as a function of its arguments *)

RECURSIVE ScanAll(_, _, _, _)
ScanAll(st, es, i, start) ==
    IF i > Len(es) THEN st ELSE ScanAll(ScanEvent(st, es[i], start), es, i + 1, start)

RECURSIVE SweepAll(_, _, _, _)
SweepAll(durs, items, j, end) ==
    IF j > Len(items) THEN durs ELSE SweepAll(SweepItem(durs, items[j], end), items, j + 1, end)

EmptyScan == [looking_at |-> <<>>, durations |-> <<>>, seen |-> {}]

process_events(es, start, end) ==
    LET st == ScanAll(EmptyScan, es, 1, start)
    IN  SweepAll(st.durations, st.looking_at, 1, end)

-----------------------------------------------------------------------------
(* process_events as a state machine: one step per loop iteration *)

Events == {StalkEvent(u, t, a) : u \in Users, t \in Times, a \in StalkType}

EventSeqs == UNION {[1..n -> Events] : n \in 0..MaxEvents}

FilterIdle == intervals = <<>> /\ kept = <<>> /\ fpos = 1 /\ fpc = "idle"

StalkIdle ==
    /\ history = <<>> /\ channel_name = <<>> /\ delta_hours = 0 /\ now = 0
    /\ stalk_start = 0 /\ events = <<>> /\ stalk_durations = <<>> /\ hpos = 1
    /\ spc = "idle"

EmbedIdle ==
    /\ emb = "none" /\ target_channel = "none" /\ origin = "none" /\ uid = "none"
    /\ type = "none" /\ chan = "none" /\ result = "none" /\ epc = "idle"

Init ==
    /\ evts \in EventSeqs
    /\ start_time \in Times
    /\ end_time \in Times
    /\ looking_at = <<>>
    /\ durations = <<>>
    /\ seen = {}
    /\ idx = 1
    /\ k = 1
    /\ pc = "scan"
    /\ earlier = <<>>
    /\ EmbedIdle
    /\ FilterIdle
    /\ StalkIdle

Scanning == pc = "scan" /\ idx <= Len(evts)

ScanState == [looking_at |-> looking_at, durations |-> durations, seen |-> seen]

\* mutant: the loop does not move on to the next event
ScanApplyStays ==
    LET st == ScanEvent(ScanState, evts[idx], start_time)
    IN  /\ looking_at' = st.looking_at
        /\ durations' = st.durations
        /\ seen' = st.seen
        /\ idx' = idx
        /\ UNCHANGED <<evts, start_time, end_time, k, pc, evars, earlier, fvars, svars>>

ScanApply ==
    LET st == ScanEvent(ScanState, evts[idx], start_time)
    IN  /\ looking_at' = st.looking_at
        /\ durations' = st.durations
        /\ seen' = st.seen
        /\ idx' = idx + 1
        /\ UNCHANGED <<evts, start_time, end_time, k, pc, evars, earlier, fvars, svars>>

\* line 90
ScanJoin ==
    /\ Scanning
    /\ evts[idx].action = Join
    /\ ScanApply

\* line 92
ScanLeaveOpen ==
    /\ Scanning
    /\ evts[idx].action # Join
    /\ DictHas(looking_at, evts[idx].who)
    /\ ScanApply

\* line 95
ScanLeaveFirst ==
    /\ Scanning
    /\ evts[idx].action # Join
    /\ ~DictHas(looking_at, evts[idx].who)
    /\ evts[idx].who \notin seen
    /\ ScanApply

\* neither branch: only seen.add
ScanLeaveSeen ==
    /\ Scanning
    /\ evts[idx].action # Join
    /\ ~DictHas(looking_at, evts[idx].who)
    /\ evts[idx].who \in seen
    /\ ScanApply

\* the first loop is exhausted, the second starts
ScanEnd ==
    /\ pc = "scan"
    /\ idx > Len(evts)
    /\ pc' = "sweep"
    /\ UNCHANGED <<evts, start_time, end_time, looking_at, durations, seen, idx, k, evars, earlier, fvars, svars>>

Sweeping == pc = "sweep" /\ k <= Len(looking_at)

SweepApply ==
    /\ durations' = SweepItem(durations, looking_at[k], end_time)
    /\ k' = k + 1
    /\ UNCHANGED <<evts, start_time, end_time, looking_at, seen, idx, pc, evars, earlier, fvars, svars>>

\* line 101-103: continue
SweepStale ==
    /\ Sweeping
    /\ Stale(looking_at[k].val, end_time)
    /\ SweepApply

\* line 104
SweepOpen ==
    /\ Sweeping
    /\ ~Stale(looking_at[k].val, end_time)
    /\ SweepApply

\* line 106
Return ==
    /\ pc = "sweep"
    /\ k > Len(looking_at)
    /\ pc' = "done"
    /\ UNCHANGED <<evts, start_time, end_time, looking_at, durations, seen, idx, k, evars, earlier, fvars, svars>>

Next ==
    \/ ScanJoin
    \/ ScanLeaveOpen
    \/ ScanLeaveFirst
    \/ ScanLeaveSeen
    \/ ScanEnd
    \/ SweepStale
    \/ SweepOpen
    \/ Return

Spec == Init /\ [][Next]_vars

\* the state machine returns what the function computes
ReturnsFunction == pc = "done" => durations = process_events(evts, start_time, end_time)

-----------------------------------------------------------------------------
(* process_events called again in the same process: a call that returned is  *)
(* followed by a second call on any arguments.                               *)

\* the arguments of the first call: each leaves an open join, a seen user and
\* an interval behind
EarlierCalls ==
    {[evts |-> <<StalkEvent(1, 1, Join), StalkEvent(2, 1, Leave)>>,
      start_time |-> 0, end_time |-> 43201],
     [evts |-> <<StalkEvent(1, 1, Leave), StalkEvent(2, 0, Join)>>,
      start_time |-> 1, end_time |-> 1]}

InitCalls ==
    /\ \E c \in EarlierCalls :
        evts = c.evts /\ start_time = c.start_time /\ end_time = c.end_time
    /\ looking_at = <<>>
    /\ durations = <<>>
    /\ seen = {}
    /\ idx = 1
    /\ k = 1
    /\ pc = "scan"
    /\ earlier = <<>>
    /\ EmbedIdle
    /\ FilterIdle
    /\ StalkIdle

\* mutant: looking_at and seen as module-level objects, made once
EnterCallKeepsState ==
    /\ looking_at' = looking_at
    /\ durations' = <<>>
    /\ seen' = seen
    /\ idx' = 1
    /\ k' = 1
    /\ pc' = "scan"

\* lines 84-87, run on entry of every call
EnterCall ==
    /\ looking_at' = <<>>
    /\ durations' = <<>>
    /\ seen' = {}
    /\ idx' = 1
    /\ k' = 1
    /\ pc' = "scan"

\* line 83, a second time
CallAgain ==
    /\ pc = "done"
    /\ earlier = <<>>
    /\ earlier' = <<[evts |-> evts, start_time |-> start_time, end_time |-> end_time,
                     returned |-> durations]>>
    /\ evts' \in EventSeqs
    /\ start_time' \in Times
    /\ end_time' \in Times
    /\ EnterCall
    /\ UNCHANGED <<evars, fvars, svars>>

NextCalls ==
    \/ ScanJoin
    \/ ScanLeaveOpen
    \/ ScanLeaveFirst
    \/ ScanLeaveSeen
    \/ ScanEnd
    \/ SweepStale
    \/ SweepOpen
    \/ Return
    \/ CallAgain

SpecCalls == InitCalls /\ [][NextCalls]_vars

-----------------------------------------------------------------------------
(* StalkEvent.from_embed (lines 43-74) *)

\* uid, from_chan, dest_chan = m.groups()
MovedFrom(groups) == groups[2]

\* mutant: the two channel groups unpacked in the wrong order
MovedDestIsFrom(groups) == groups[2]

MovedDest(groups) == groups[3]

\* from_embed as a function of the embed and the target channel
from_embed(e, target) ==
    IF e.description = Empty THEN None
    ELSE LET d  == e.description[1]
             j  == joined_re(d)
             l  == left_re(d)
             mv == moved_re(d)
             cand ==
                 IF j.ok THEN <<[uid |-> j.groups[1], chan |-> j.groups[2], type |-> Join]>>
                 ELSE IF l.ok
                 THEN <<[uid |-> l.groups[1], chan |-> l.groups[2], type |-> Leave]>>
                 ELSE IF mv.ok
                 THEN IF MovedDest(mv.groups) = target
                      THEN <<[uid |-> mv.groups[1], chan |-> MovedDest(mv.groups),
                              type |-> Join]>>
                      ELSE IF MovedFrom(mv.groups) = target
                      THEN <<[uid |-> mv.groups[1], chan |-> MovedDest(mv.groups),
                              type |-> Leave]>>
                      ELSE <<>>
                 ELSE <<>>
         IN  IF cand = <<>> THEN None
             ELSE IF cand[1].chan # target THEN None
             ELSE IF e.timestamp = Empty THEN None
             ELSE <<StalkEvent(int(cand[1].uid), e.timestamp[1], cand[1].type)>>

(* The embeds from_embed is run on: descriptions written from the three     *)
(* notification shapes, well formed or not, plain chat, and no description.  *)

MaxPad == 1

Uids == {7, 40, 105}

Vc == <<"v", "c">>

Vc2 == <<"v", "c", "2">>

Afk == <<"A", "f", "_", "k">>

Lobby == <<"v", "-", "c">>

\* channel names as the relay writes them; the last is no run of word characters
ChanNames == {Vc, Vc2, Afk, Lobby}

TargetNames == {Vc, Afk}

Leads == {<<>>, <<" ">>}

Tails == {<<".">>, <<"!">>, <<>>, <<"\n">>, <<".", " ", "o", "k">>}

RECURSIVE Decimal(_)
Decimal(n) ==
    IF n < 10 THEN <<DigitChars[n + 1]>>
    ELSE Decimal(n \div 10) \o <<DigitChars[(n % 10) + 1]>>

Zeros(n) == [i \in 1..n |-> "0"]

Mention(o) ==
    <<"<", "@">> \o (IF o.bang THEN <<"!">> ELSE <<>>) \o Zeros(o.pad) \o Decimal(o.uid)
        \o <<">">>

Stars(name) == <<"*", "*">> \o name \o <<"*", "*">>

Render(o) ==
    IF o.shape = "joined" THEN o.lead \o Mention(o) \o JoinedVerb \o Stars(o.chan) \o o.tail
    ELSE IF o.shape = "left" THEN o.lead \o Mention(o) \o LeftVerb \o Stars(o.chan) \o o.tail
    ELSE IF o.shape = "moved"
    THEN o.lead \o Mention(o) \o MovedVerb \o Stars(o.from_chan) \o ToWord
             \o Stars(o.chan) \o o.tail
    ELSE <<"h", "i">>

Notifications ==
    [shape : {"joined", "left"}, uid : Uids, pad : 0..MaxPad, bang : BOOLEAN,
     chan : ChanNames, from_chan : {Vc}, lead : Leads, tail : Tails]
    \cup
    [shape : {"moved"}, uid : Uids, pad : 0..MaxPad, bang : BOOLEAN,
     chan : ChanNames, from_chan : ChanNames, lead : Leads, tail : Tails]

Chat ==
    [shape : {"chat", "empty"}, uid : {7}, pad : {0}, bang : {FALSE},
     chan : {Vc}, from_chan : {Vc}, lead : {<<>>}, tail : {<<>>}]

Stamps == {Empty} \cup {<<t>> : t \in Times}

ProcessIdle ==
    /\ evts = <<>> /\ start_time = 0 /\ end_time = 0 /\ looking_at = <<>>
    /\ durations = <<>> /\ seen = {} /\ idx = 1 /\ k = 1 /\ pc = "idle"

InitEmbed ==
    /\ origin \in Notifications \cup Chat
    /\ \E ts \in Stamps :
        emb = [description |-> IF origin.shape = "empty" THEN Empty ELSE <<Render(origin)>>,
               timestamp |-> ts]
    /\ target_channel \in TargetNames
    /\ uid = <<>>
    /\ type = ""
    /\ chan = <<>>
    /\ result = None
    /\ epc = "match"
    /\ ProcessIdle
    /\ earlier = <<>>
    /\ FilterIdle
    /\ StalkIdle

d == emb.description[1]

ReturnNone ==
    /\ result' = None
    /\ epc' = "done"
    /\ UNCHANGED <<emb, target_channel, origin, uid, type, chan, pvars, earlier, fvars, svars>>

Candidate(u, c, t) ==
    /\ uid' = u
    /\ chan' = c
    /\ type' = t
    /\ epc' = "chan"
    /\ UNCHANGED <<emb, target_channel, origin, result, pvars, earlier, fvars, svars>>

\* lines 46-47
DescriptionEmpty ==
    /\ epc = "match"
    /\ emb.description = Empty
    /\ ReturnNone

Matching == epc = "match" /\ emb.description # Empty

\* lines 49-51
MatchJoined ==
    /\ Matching
    /\ joined_re(d).ok
    /\ Candidate(joined_re(d).groups[1], joined_re(d).groups[2], Join)

\* lines 52-54
MatchLeft ==
    /\ Matching
    /\ ~joined_re(d).ok
    /\ left_re(d).ok
    /\ Candidate(left_re(d).groups[1], left_re(d).groups[2], Leave)

MatchingMoved == Matching /\ ~joined_re(d).ok /\ ~left_re(d).ok /\ moved_re(d).ok

\* lines 55-59
MatchMovedIn ==
    /\ MatchingMoved
    /\ MovedDest(moved_re(d).groups) = target_channel
    /\ Candidate(moved_re(d).groups[1], MovedDest(moved_re(d).groups), Join)

\* lines 60-62
MatchMovedOut ==
    /\ MatchingMoved
    /\ MovedDest(moved_re(d).groups) # target_channel
    /\ MovedFrom(moved_re(d).groups) = target_channel
    /\ Candidate(moved_re(d).groups[1], MovedDest(moved_re(d).groups), Leave)

\* lines 63-64
MatchMovedElsewhere ==
    /\ MatchingMoved
    /\ MovedDest(moved_re(d).groups) # target_channel
    /\ MovedFrom(moved_re(d).groups) # target_channel
    /\ ReturnNone

\* lines 65-66
MatchNothing ==
    /\ Matching
    /\ ~joined_re(d).ok /\ ~left_re(d).ok /\ ~moved_re(d).ok
    /\ ReturnNone

\* mutant: the channel check of line 68 missing
WrongChannelPasses ==
    /\ epc = "chan"
    /\ chan # target_channel
    /\ epc' = "timestamp"
    /\ UNCHANGED <<emb, target_channel, origin, uid, type, chan, result, pvars, earlier, fvars, svars>>

\* lines 68-69
WrongChannel ==
    /\ epc = "chan"
    /\ chan # target_channel
    /\ ReturnNone

RightChannel ==
    /\ epc = "chan"
    /\ chan = target_channel
    /\ epc' = "timestamp"
    /\ UNCHANGED <<emb, target_channel, origin, uid, type, chan, result, pvars, earlier, fvars, svars>>

\* mutant: the timestamp check of line 71 missing
NoTimestampReturnsEvent ==
    /\ epc = "timestamp"
    /\ emb.timestamp = Empty
    /\ result' = <<StalkEvent(int(uid), emb.timestamp, type)>>
    /\ epc' = "done"
    /\ UNCHANGED <<emb, target_channel, origin, uid, type, chan, pvars, earlier, fvars, svars>>

\* lines 71-72
NoTimestamp ==
    /\ epc = "timestamp"
    /\ emb.timestamp = Empty
    /\ ReturnNone

\* line 74
ReturnEvent ==
    /\ epc = "timestamp"
    /\ emb.timestamp # Empty
    /\ result' = <<StalkEvent(int(uid), emb.timestamp[1], type)>>
    /\ epc' = "done"
    /\ UNCHANGED <<emb, target_channel, origin, uid, type, chan, pvars, earlier, fvars, svars>>

NextEmbed ==
    \/ DescriptionEmpty
    \/ MatchJoined
    \/ MatchLeft
    \/ MatchMovedIn
    \/ MatchMovedOut
    \/ MatchMovedElsewhere
    \/ MatchNothing
    \/ WrongChannel
    \/ RightChannel
    \/ NoTimestamp
    \/ ReturnEvent

SpecEmbed == InitEmbed /\ [][NextEmbed]_vars

\* the state machine returns what the function computes
EmbedReturnsFunction == epc = "done" => result = from_embed(emb, target_channel)

-----------------------------------------------------------------------------
(* The duration filter of stalk_csv and stalk_plot (lines 144 and 186):      *)
(* durations = [d for d in durations if (d.left - d.joined).total_seconds() > 600] *)

MinDuration == 600

\* mutant: >= in place of >
LongEnoughOrEqual(dur) == dur.left - dur.joined >= MinDuration

\* (d.left - d.joined).total_seconds() > 600
LongEnough(dur) == dur.left - dur.joined > MinDuration

\* one iteration of the comprehension
FilterItem(out, dur) == IF LongEnough(dur) THEN Append(out, dur) ELSE out

RECURSIVE FilterFrom(_, _, _)
FilterFrom(out, durs, i) ==
    IF i > Len(durs) THEN out ELSE FilterFrom(FilterItem(out, durs[i]), durs, i + 1)

\* the comprehension as a function of the list it reads
MinDurationFilter(durs) == FilterFrom(<<>>, durs, 1)

MaxIntervals == 3

\* intervals of -1, 0, 599, 600 and 601 seconds
FilterIntervals == {ConnectedDuration(u, j, l) : u \in Users, j \in {0, 1}, l \in {0, 600, 601}}

InitFilter ==
    /\ intervals \in UNION {[1..n -> FilterIntervals] : n \in 0..MaxIntervals}
    /\ kept = <<>>
    /\ fpos = 1
    /\ fpc = "filter"
    /\ ProcessIdle
    /\ earlier = <<>>
    /\ EmbedIdle
    /\ StalkIdle

Filtering == fpc = "filter" /\ fpos <= Len(intervals)

FilterApply ==
    /\ kept' = FilterItem(kept, intervals[fpos])
    /\ fpos' = fpos + 1
    /\ UNCHANGED <<intervals, fpc, pvars, evars, earlier, svars>>

FilterKeep ==
    /\ Filtering
    /\ LongEnough(intervals[fpos])
    /\ FilterApply

FilterDrop ==
    /\ Filtering
    /\ ~LongEnough(intervals[fpos])
    /\ FilterApply

\* the comprehension is exhausted: its list is the value of the expression
FilterReturn ==
    /\ fpc = "filter"
    /\ fpos > Len(intervals)
    /\ fpc' = "done"
    /\ UNCHANGED <<intervals, kept, fpos, pvars, evars, earlier, svars>>

NextFilter ==
    \/ FilterKeep
    \/ FilterDrop
    \/ FilterReturn

SpecFilter == InitFilter /\ [][NextFilter]_vars

\* the state machine returns what the function computes
FilterReturnsFunction == fpc = "done" => kept = MinDurationFilter(intervals)

-----------------------------------------------------------------------------
(* stalk_csv, lines 123-144: the history loop, process_events and the       *)
(* duration filter.  stalk_plot runs the same statements (lines 165-186).    *)

\* message.author.id of the relay; an id is only ever compared, so it is kept
\* as its decimal text
RelayBot == "641596449355726858"

SomeoneElse == "1"

\* timedelta(hours=1) in seconds
SecondsPerHour == 3600

\* mutant: events.insert(0, event)
CollectFirst(evs, msg, target) ==
    IF msg.author # RelayBot THEN evs
    ELSE IF msg.embeds = <<>> THEN evs
    ELSE IF from_embed(msg.embeds[1], target) = None THEN evs
    ELSE <<from_embed(msg.embeds[1], target)[1]>> \o evs

\* the body of the async for loop (lines 129-141), as a function of events
Collect(evs, msg, target) ==
    IF msg.author # RelayBot THEN evs
    ELSE IF msg.embeds = <<>> THEN evs
    ELSE IF from_embed(msg.embeds[1], target) = None THEN evs
    ELSE Append(evs, from_embed(msg.embeds[1], target)[1])

(* The messages the history is made of *)

MaxMessages == 3

Said(shape, who, name) ==
    Render([shape |-> shape, uid |-> who, pad |-> 0, bang |-> FALSE, chan |-> name,
            from_chan |-> name, lead |-> <<>>, tail |-> <<".">>])

Embed(text, stamp) == [description |-> <<text>>, timestamp |-> stamp]

Message(author, embeds) == [author |-> author, embeds |-> embeds]

StalkEmbeds ==
    {Embed(Said(shape, 1, Vc), <<t>>) : shape \in {"joined", "left"}, t \in {3600, 7200}}
    \cup {Embed(Said("joined", 1, Vc2), <<3600>>),
          Embed(Said("chat", 1, Vc), <<3600>>),
          Embed(Said("joined", 1, Vc), Empty)}

StalkMessages ==
    {Message(RelayBot, <<e>>) : e \in StalkEmbeds}
    \cup {Message(RelayBot, <<>>),
          Message(SomeoneElse, <<Embed(Said("joined", 1, Vc), <<3600>>)>>),
          Message(RelayBot, <<Embed(Said("left", 1, Vc), <<7200>>),
                              Embed(Said("joined", 1, Vc), <<3600>>)>>)}

InitStalk ==
    /\ history \in UNION {[1..n -> StalkMessages] : n \in 0..MaxMessages}
    /\ channel_name = Vc
    /\ delta_hours \in {2, 3}
    /\ now = 10800
    /\ stalk_start = 0
    /\ events = <<>>
    /\ stalk_durations = <<>>
    /\ hpos = 1
    /\ spc = "start"
    /\ ProcessIdle
    /\ earlier = <<>>
    /\ EmbedIdle
    /\ FilterIdle

\* lines 123-126
StalkBegin ==
    /\ spc = "start"
    /\ stalk_start' = now - delta_hours * SecondsPerHour
    /\ events' = <<>>
    /\ spc' = "history"
    /\ UNCHANGED <<history, channel_name, delta_hours, now, stalk_durations, hpos,
                   pvars, evars, earlier, fvars>>

InHistory == spc = "history" /\ hpos <= Len(history)

CollectApply ==
    /\ events' = Collect(events, history[hpos], channel_name)
    /\ hpos' = hpos + 1
    /\ UNCHANGED <<history, channel_name, delta_hours, now, stalk_start, stalk_durations,
                   spc, pvars, evars, earlier, fvars>>

\* lines 129-130
SkipAuthor ==
    /\ InHistory
    /\ history[hpos].author # RelayBot
    /\ CollectApply

\* lines 132-133
SkipNoEmbeds ==
    /\ InHistory
    /\ history[hpos].author = RelayBot
    /\ history[hpos].embeds = <<>>
    /\ CollectApply

\* lines 135-139
SkipNoEvent ==
    /\ InHistory
    /\ history[hpos].author = RelayBot
    /\ history[hpos].embeds # <<>>
    /\ from_embed(history[hpos].embeds[1], channel_name) = None
    /\ CollectApply

\* line 141
CollectEvent ==
    /\ InHistory
    /\ history[hpos].author = RelayBot
    /\ history[hpos].embeds # <<>>
    /\ from_embed(history[hpos].embeds[1], channel_name) # None
    /\ CollectApply

\* line 143
StalkProcess ==
    /\ spc = "history"
    /\ hpos > Len(history)
    /\ stalk_durations' = process_events(events, stalk_start, now)
    /\ spc' = "filter"
    /\ UNCHANGED <<history, channel_name, delta_hours, now, stalk_start, events, hpos,
                   pvars, evars, earlier, fvars>>

\* line 144
StalkFilter ==
    /\ spc = "filter"
    /\ stalk_durations' = MinDurationFilter(stalk_durations)
    /\ spc' = "write"
    /\ UNCHANGED <<history, channel_name, delta_hours, now, stalk_start, events, hpos,
                   pvars, evars, earlier, fvars>>

NextStalk ==
    \/ StalkBegin
    \/ SkipAuthor
    \/ SkipNoEmbeds
    \/ SkipNoEvent
    \/ CollectEvent
    \/ StalkProcess
    \/ StalkFilter

SpecStalk == InitStalk /\ [][NextStalk]_vars

-----------------------------------------------------------------------------
(* Properties of process_events *)

\* the caller's obligations of the reconstruction contract
Sorted(es) == \A i \in 1..(Len(es) - 1) : es[i].when <= es[i + 1].when

InWindow(es, start, end) == \A i \in DOMAIN es : start <= es[i].when /\ es[i].when <= end

Done == pc = "done"

\* evts[i].who is the user of an earlier event of the pass
AppearedBefore(i, who) == \E j \in 1..(i - 1) : evts[j].who = who

Disjoint(a, b) == a.left <= b.joined \/ b.left <= a.joined

\* C1: for events in non-decreasing `when` order, all within [start_time, end_time],
\* two distinct returned intervals of one user never overlap: one has
\* left <= the other's joined.
C1_NoOverlapPerUser ==
    (Done /\ Sorted(evts) /\ InWindow(evts, start_time, end_time)) =>
        \A i, j \in DOMAIN durations :
            (i # j /\ durations[i].who = durations[j].who) =>
                Disjoint(durations[i], durations[j])

\* two intervals of positive length for one user, from conforming input
C1_Witness ==
    /\ Done /\ Sorted(evts) /\ InWindow(evts, start_time, end_time)
    /\ \E i, j \in DOMAIN durations :
        /\ i # j
        /\ durations[i].who = durations[j].who
        /\ durations[i].joined < durations[i].left
        /\ durations[j].joined < durations[j].left

\* C2: every returned interval has left >= joined, for events in non-decreasing
\* `when` order and a window with start_time <= end_time.
C2_LeftNotBeforeJoined ==
    (Done /\ Sorted(evts) /\ start_time <= end_time) =>
        \A i \in DOMAIN durations : durations[i].left >= durations[i].joined

\* C3: a Leave of a user holding an open join J emits exactly (U, J, T) and clears
\* the open join; [Join(U,t1), Leave(U,t2)] with t2 > t1 returns exactly
\* [Interval(U,t1,t2)].
C3_LeaveClosesOpenJoin ==
    /\ [][(Scanning /\ evts[idx].action = Leave /\ DictHas(looking_at, evts[idx].who)) =>
            /\ durations' = Append(durations,
                    ConnectedDuration(evts[idx].who,
                                      DictGet(looking_at, evts[idx].who), evts[idx].when))
            /\ ~DictHas(looking_at', evts[idx].who)]_vars
    /\ [](( /\ Done /\ Len(evts) = 2
            /\ evts[1].action = Join /\ evts[2].action = Leave
            /\ evts[1].who = evts[2].who /\ evts[2].when > evts[1].when) =>
            durations = <<ConnectedDuration(evts[1].who, evts[1].when, evts[2].when)>>)

C3_Witness ==
    /\ Done /\ Len(evts) = 2
    /\ evts[1].action = Join /\ evts[2].action = Leave
    /\ evts[1].who = evts[2].who /\ evts[2].when > evts[1].when
    /\ Len(durations) = 1

\* C4: a Leave at T of a user with no earlier event in the pass emits
\* (U, start_time, T); [Leave(U,t1)] alone returns exactly [Interval(U,start_time,t1)].
C4_FirstLeaveFromStart ==
    /\ [][(Scanning /\ evts[idx].action = Leave /\ ~AppearedBefore(idx, evts[idx].who)) =>
            durations' = Append(durations,
                    ConnectedDuration(evts[idx].who, start_time, evts[idx].when))]_vars
    /\ [](( Done /\ Len(evts) = 1 /\ evts[1].action = Leave) =>
            durations = <<ConnectedDuration(evts[1].who, start_time, evts[1].when)>>)

C4_Witness ==
    /\ Done /\ Len(evts) = 1 /\ evts[1].action = Leave
    /\ start_time < evts[1].when
    /\ Len(durations) = 1

\* the open joins the second loop keeps, in the order it meets them
KeptOpen == SelectSeq(looking_at, LAMBDA it : end_time - it.val <= TwelveHours)

\* C5: after the scan every user still holding an open join J gets (U, J, end_time)
\* exactly when end_time - J <= 12 hours, and nothing otherwise; [Join(U,t1)] alone
\* returns [Interval(U,t1,end_time)] or [] accordingly.
C5_SweepTwelveHours ==
    /\ [][Sweeping =>
            IF end_time - looking_at[k].val <= TwelveHours
            THEN durations' = Append(durations,
                    ConnectedDuration(looking_at[k].key, looking_at[k].val, end_time))
            ELSE durations' = durations]_vars
    /\ [](Done =>
            /\ Len(durations) >= Len(KeptOpen)
            /\ \A j \in DOMAIN KeptOpen :
                durations[Len(durations) - Len(KeptOpen) + j] =
                    ConnectedDuration(KeptOpen[j].key, KeptOpen[j].val, end_time))
    /\ [](( Done /\ Len(evts) = 1 /\ evts[1].action = Join) =>
            durations = IF end_time - evts[1].when <= TwelveHours
                        THEN <<ConnectedDuration(evts[1].who, evts[1].when, end_time)>>
                        ELSE <<>>)

\* one open join of exactly 12 hours is kept next to one of more that is dropped
C5_Witness ==
    /\ Done
    /\ \E i, j \in DOMAIN looking_at :
        /\ end_time - looking_at[i].val = TwelveHours
        /\ end_time - looking_at[j].val > TwelveHours
    /\ Len(KeptOpen) = 1
    /\ durations = <<ConnectedDuration(KeptOpen[1].key, KeptOpen[1].val, end_time)>>

\* C6: a Join of a user who already holds an open join replaces the open-join
\* timestamp and emits nothing; for [Join(U,t1), Join(U,t2)], t1 # t2, no returned
\* interval has joined = t1 and only t2 meets the end-of-window check.
C6_JoinReplacesOpenJoin ==
    /\ [][(Scanning /\ evts[idx].action = Join /\ DictHas(looking_at, evts[idx].who)) =>
            /\ durations' = durations
            /\ DictGet(looking_at', evts[idx].who) = evts[idx].when
            /\ Len(looking_at') = Len(looking_at)]_vars
    /\ [](( /\ Done /\ Len(evts) = 2
            /\ evts[1].action = Join /\ evts[2].action = Join
            /\ evts[1].who = evts[2].who /\ evts[1].when # evts[2].when) =>
            /\ \A i \in DOMAIN durations : durations[i].joined # evts[1].when
            /\ looking_at = <<[key |-> evts[2].who, val |-> evts[2].when]>>
            /\ durations = IF end_time - evts[2].when <= TwelveHours
                           THEN <<ConnectedDuration(evts[2].who, evts[2].when, end_time)>>
                           ELSE <<>>)

\* the first join would have been kept by the 12 hour check, the second is
C6_Witness ==
    /\ Done /\ Len(evts) = 2
    /\ evts[1].action = Join /\ evts[2].action = Join
    /\ evts[1].who = evts[2].who /\ evts[1].when # evts[2].when
    /\ end_time - evts[1].when <= TwelveHours
    /\ Len(durations) = 1

\* C7: a Leave of a user who appeared earlier in the pass and holds no open join
\* emits nothing and the scan goes on; the second Leave of
\* [Join(U,t1), Leave(U,t2), Leave(U,t3)] and of [Leave(U,t1), Leave(U,t2)] adds
\* nothing to the result.
C7_RepeatedLeaveDropped ==
    /\ [][( /\ Scanning /\ evts[idx].action = Leave
            /\ AppearedBefore(idx, evts[idx].who)
            /\ ~DictHas(looking_at, evts[idx].who)) =>
            /\ durations' = durations
            /\ looking_at' = looking_at
            /\ idx' = idx + 1 /\ pc' = "scan"]_vars
    /\ [](( /\ Done /\ Len(evts) = 3
            /\ evts[1].action = Join /\ evts[2].action = Leave /\ evts[3].action = Leave
            /\ evts[1].who = evts[2].who /\ evts[2].who = evts[3].who) =>
            durations = <<ConnectedDuration(evts[1].who, evts[1].when, evts[2].when)>>)
    /\ [](( /\ Done /\ Len(evts) = 2
            /\ evts[1].action = Leave /\ evts[2].action = Leave
            /\ evts[1].who = evts[2].who) =>
            durations = <<ConnectedDuration(evts[1].who, start_time, evts[1].when)>>)

C7_Witness ==
    /\ Done /\ Len(evts) = 3
    /\ evts[1].action = Join /\ evts[2].action = Leave /\ evts[3].action = Leave
    /\ evts[1].who = evts[2].who /\ evts[2].who = evts[3].who
    /\ evts[1].when < evts[2].when /\ evts[2].when < evts[3].when
    /\ Len(durations) = 1

\* es with the events at i and i + 1 exchanged
SwapAdjacent(es, i) ==
    [j \in DOMAIN es |-> IF j = i THEN es[i + 1] ELSE IF j = i + 1 THEN es[i] ELSE es[j]]

Count(s, x) == Cardinality({i \in DOMAIN s : s[i] = x})

SameBag(a, b) ==
    /\ Len(a) = Len(b)
    /\ \A i \in DOMAIN a : Count(a, a[i]) = Count(b, a[i])

\* C8: exchanging two adjacent events of different users leaves the result the
\* same multiset of intervals (same window, all other events unchanged).
C8_SwapDifferentUsers ==
    Done => \A i \in 1..(Len(evts) - 1) :
        evts[i].who # evts[i + 1].who =>
            SameBag(durations,
                    process_events(SwapAdjacent(evts, i), start_time, end_time))

\* an exchange that changes the list returned, but not its multiset
C8_Witness ==
    /\ Done
    /\ \E i \in 1..(Len(evts) - 1) :
        /\ evts[i].who # evts[i + 1].who
        /\ durations # process_events(SwapAdjacent(evts, i), start_time, end_time)
        /\ Len(durations) >= 2

\* C16: process_events is a function of (events, window): the open-join map and
\* the seen set start empty on every call, two calls with the same arguments
\* return the same list, and an earlier call on other events changes nothing.
C16_CallsAreIndependent ==
    /\ (pc = "scan" /\ idx = 1) => (looking_at = <<>> /\ seen = {} /\ durations = <<>>)
    /\ Done => durations = process_events(evts, start_time, end_time)
    /\ ( /\ Done /\ earlier # <<>>
         /\ earlier[1].evts = evts
         /\ earlier[1].start_time = start_time
         /\ earlier[1].end_time = end_time) =>
            durations = earlier[1].returned

\* a second call on leaves of the user the first call left with an open join and
\* of the user it left as seen: both get their interval from start_time
C16_Witness ==
    /\ Done
    /\ earlier # <<>>
    /\ earlier[1].evts = <<StalkEvent(1, 1, Join), StalkEvent(2, 1, Leave)>>
    /\ evts = <<StalkEvent(1, 43201, Leave), StalkEvent(2, 43201, Leave)>>
    /\ start_time = 1
    /\ durations = <<ConnectedDuration(1, 1, 43201), ConnectedDuration(2, 1, 43201)>>

\* the steps process_events still has to take, at most
Rank ==
    IF pc = "scan" THEN (Len(evts) + 1 - idx) + Len(evts) + 2
    ELSE IF pc = "sweep" THEN (Len(looking_at) + 1 - k) + 1
    ELSE 0

IsInterval(x) == x.who \in Users /\ x.joined \in Times /\ x.left \in Times

\* C17: for every finite sequence of events (any order, any mix, any users) and
\* any window, process_events ends after one forward pass and the sweep and
\* returns a list of intervals; it never stops short of its return.
C17_AlwaysReturns ==
    /\ [](/\ pc \in {"scan", "sweep", "done"}
          /\ idx \in 1..(Len(evts) + 1)
          /\ k \in 1..(Len(looking_at) + 1)
          /\ Done \/ ENABLED Next)
    /\ [][Rank' < Rank]_vars
    /\ [](Done =>
            /\ idx = Len(evts) + 1
            /\ k = Len(looking_at) + 1
            /\ \A i \in DOMAIN durations : IsInterval(durations[i]))

\* events out of time order, a window that ends before it starts
C17_Witness ==
    /\ Done
    /\ Len(evts) = 3
    /\ evts[1].when > evts[2].when /\ evts[2].when > evts[3].when
    /\ evts[1].who # evts[2].who
    /\ start_time > end_time
    /\ Len(durations) >= 2

\* the intervals of user u that start at start_time
StartAnchored(u) ==
    {i \in DOMAIN durations : durations[i].who = u /\ durations[i].joined = start_time}

NoJoinAtStart(u) ==
    \A i \in DOMAIN evts :
        ~(evts[i].who = u /\ evts[i].action = Join /\ evts[i].when = start_time)

\* among the first n events, the first event of user u is a Leave
FirstIsLeave(u, n) ==
    \E i \in 1..n : evts[i].who = u /\ evts[i].action = Leave /\ ~AppearedBefore(i, u)

\* the loop is at a Leave of a user with no open join
LeaveWithoutJoin ==
    /\ Scanning
    /\ evts[idx].action = Leave
    /\ ~DictHas(looking_at, evts[idx].who)

\* C18: a Leave of a user with no open join emits the interval
\* (who, start_time, when) when it is that user's first event and emits nothing
\* when the user has appeared before; so a user gets at most one interval from
\* this rule, and gets one exactly when their first event is a Leave.
C18_OneStartAnchoredPerUser ==
    /\ [][LeaveWithoutJoin =>
            durations' = IF AppearedBefore(idx, evts[idx].who) THEN durations
                         ELSE Append(durations, ConnectedDuration(evts[idx].who,
                                                    start_time, evts[idx].when))]_vars
    /\ [](\A u \in Users : NoJoinAtStart(u) =>
            Cardinality(StartAnchored(u)) = IF FirstIsLeave(u, idx - 1) THEN 1 ELSE 0)

\* a user leaves twice before ever joining and has a third event; one interval
\* of that user starts at start_time
C18_Witness ==
    /\ Done
    /\ Len(evts) = 3
    /\ evts[1].action = Leave /\ evts[2].action = Leave
    /\ evts[1].who = evts[2].who
    /\ evts[3].who = evts[1].who
    /\ NoJoinAtStart(evts[1].who)
    /\ Cardinality(StartAnchored(evts[1].who)) = 1

\* the event before position i that is the latest of the same user
LastBefore(i) ==
    CHOOSE j \in 1..(i - 1) :
        /\ evts[j].who = evts[i].who
        /\ \A m \in (j + 1)..(i - 1) : evts[m].who # evts[i].who

\* the user of event i has a join open when the loop reaches event i
OpenJoinAt(i) ==
    AppearedBefore(i, evts[i].who) /\ evts[LastBefore(i)].action = Join

\* the interval a Leave at position i closes
ClosedBy(i) ==
    ConnectedDuration(evts[i].who,
                      IF OpenJoinAt(i) THEN evts[LastBefore(i)].when ELSE start_time,
                      evts[i].when)

\* the intervals closed by the Leave events among the first n events, in order
RECURSIVE ClosedByLeaves(_)
ClosedByLeaves(n) ==
    IF n = 0 THEN <<>>
    ELSE IF /\ evts[n].action = Leave
            /\ OpenJoinAt(n) \/ ~AppearedBefore(n, evts[n].who)
         THEN Append(ClosedByLeaves(n - 1), ClosedBy(n))
         ELSE ClosedByLeaves(n - 1)

\* C19: every Leave that closes an open join, and every Leave that is its
\* user's first event, puts its interval in the result whatever the interval's
\* length; the only intervals left out are those of joins still open after the
\* scan that are more than twelve hours before end_time.
C19_CutOffOnlyForOpenJoins ==
    /\ pc = "scan" => durations = ClosedByLeaves(idx - 1)
    /\ pc = "sweep" =>
           /\ Len(durations) >= Len(ClosedByLeaves(Len(evts)))
           /\ SubSeq(durations, 1, Len(ClosedByLeaves(Len(evts)))) = ClosedByLeaves(Len(evts))
    /\ Done =>
           /\ Len(durations) = Len(ClosedByLeaves(Len(evts))) + Len(KeptOpen)
           /\ SubSeq(durations, 1, Len(ClosedByLeaves(Len(evts)))) = ClosedByLeaves(Len(evts))

\* a join closed by a leave more than twelve hours later and a first leave more
\* than twelve hours after start_time, both in the result
C19_Witness ==
    /\ Done
    /\ \E i, j \in DOMAIN evts :
          /\ evts[i].action = Leave /\ OpenJoinAt(i)
          /\ ClosedBy(i).left - ClosedBy(i).joined > TwelveHours
          /\ evts[j].action = Leave /\ ~AppearedBefore(j, evts[j].who)
          /\ ClosedBy(j).left - ClosedBy(j).joined > TwelveHours
          /\ \E a, b \in DOMAIN durations :
                a # b /\ durations[a] = ClosedBy(i) /\ durations[b] = ClosedBy(j)

\* where the joined end of an interval can come from: 0 stands for start_time,
\* i > 0 for the Join event at position i
JoinedSources(iv) ==
    (IF iv.joined = start_time THEN {0} ELSE {}) \cup
    {i \in DOMAIN evts :
        evts[i].who = iv.who /\ evts[i].action = Join /\ evts[i].when = iv.joined}

\* where the left end of an interval can come from: 0 stands for end_time,
\* i > 0 for the Leave event at position i
LeftSources(iv) ==
    (IF iv.left = end_time THEN {0} ELSE {}) \cup
    {i \in DOMAIN evts :
        evts[i].who = iv.who /\ evts[i].action = Leave /\ evts[i].when = iv.left}

\* the intervals from position n on can each be given a source for both ends,
\* the Leave after the Join, with no event of `used` and no event used twice
RECURSIVE Attributable(_, _)
Attributable(n, used) ==
    IF n > Len(durations) THEN TRUE
    ELSE \E js \in JoinedSources(durations[n]), ls \in LeftSources(durations[n]) :
            /\ js = 0 \/ js \notin used
            /\ ls = 0 \/ ls \notin used
            /\ (js # 0 /\ ls # 0) => js < ls
            /\ Attributable(n + 1, used \cup ({js, ls} \ {0}))

\* C20: every returned interval belongs to the user of some input event, starts
\* at start_time or at a Join of that user, ends at end_time or at a Leave of
\* that user later in the sequence than that Join, and no event gives an end to
\* two intervals.
C20_NothingFabricated ==
    Done =>
        /\ \A n \in DOMAIN durations : \E i \in DOMAIN evts : evts[i].who = durations[n].who
        /\ Attributable(1, {})

\* one interval with both ends from events, another from a join left open,
\* neither end equal to a window bound by coincidence
C20_Witness ==
    /\ Done
    /\ \E a, b \in DOMAIN durations :
          /\ a # b
          /\ durations[a].joined # start_time /\ durations[a].left # end_time
          /\ durations[b].joined # start_time /\ durations[b].left = end_time
          /\ durations[b].joined # durations[a].joined

-----------------------------------------------------------------------------
(* Properties of from_embed *)

EmbedDone == epc = "done"

\* the description is exactly "<mention> VERB **<channel>**." as the relay writes it
WellFormed == origin.lead = <<>> /\ origin.tail = <<".">>

WordOnly(name) == name # <<>> /\ \A i \in DOMAIN name : name[i] \in Word

\* C9: a record whose text is a join-pattern text naming the target channel and
\* whose timestamp is present gives an event with action = join, who = the
\* identifier written in the text and when = the record's timestamp.
C9_JoinTextGivesJoin ==
    ( /\ EmbedDone
      /\ origin.shape = "joined" /\ WellFormed
      /\ origin.chan = target_channel
      /\ emb.timestamp # Empty) =>
        result = <<StalkEvent(origin.uid, emb.timestamp[1], Join)>>

\* a join text with "<@!", a leading zero and a three digit identifier
C9_Witness ==
    /\ EmbedDone
    /\ origin.shape = "joined" /\ WellFormed
    /\ origin.chan = target_channel
    /\ emb.timestamp # Empty
    /\ origin.bang /\ origin.pad = 1 /\ origin.uid = 105
    /\ result # None

\* C10: a move record with a timestamp whose destination is the target channel,
\* whatever its origin channel, gives a Join event for the user written in the
\* text at the record's timestamp.
C10_MoveIntoTargetGivesJoin ==
    ( /\ EmbedDone
      /\ origin.shape = "moved" /\ WellFormed
      /\ WordOnly(origin.from_chan)
      /\ origin.chan = target_channel
      /\ emb.timestamp # Empty) =>
        result = <<StalkEvent(origin.uid, emb.timestamp[1], Join)>>

\* a move into the target channel from another channel
C10_Witness ==
    /\ EmbedDone
    /\ origin.shape = "moved" /\ WellFormed
    /\ WordOnly(origin.from_chan)
    /\ origin.from_chan # target_channel
    /\ origin.chan = target_channel
    /\ emb.timestamp # Empty
    /\ result # None

\* C11: a move record with a timestamp whose origin is the target channel and
\* whose destination is another channel B gives a Leave event for the user
\* written in the text at the record's timestamp.
C11_MoveOutOfTargetGivesLeave ==
    ( /\ EmbedDone
      /\ origin.shape = "moved" /\ WellFormed
      /\ origin.from_chan = target_channel
      /\ origin.chan # target_channel /\ WordOnly(origin.chan)
      /\ emb.timestamp # Empty) =>
        result = <<StalkEvent(origin.uid, emb.timestamp[1], Leave)>>

IsNotification == origin.shape \in {"joined", "left", "moved"}

\* C12: no event is returned when the record's reported channel differs from the
\* target channel, whatever the pattern: the named channel of a join or leave
\* record, the destination of a move record (join and leave sub-case alike).
C12_OtherChannelGivesNothing ==
    (EmbedDone /\ IsNotification /\ origin.chan # target_channel) => result = None

\* a move out of the target channel, taken as a leave and then discarded on its
\* destination
C12_Witness ==
    /\ EmbedDone
    /\ origin.shape = "moved" /\ WellFormed
    /\ origin.from_chan = target_channel
    /\ origin.chan # target_channel
    /\ emb.timestamp # Empty
    /\ type = Leave /\ chan = origin.chan
    /\ result = None

\* C13: a record without a timestamp gives no event, whatever its text and
\* whichever pattern it matches; from_embed only passes through its own checks.
C13_NoTimestampGivesNothing ==
    emb.timestamp = Empty =>
        /\ epc \in {"match", "chan", "timestamp", "done"}
        /\ EmbedDone => result = None

\* a join record of the target channel that only lacks the timestamp
C13_Witness ==
    /\ EmbedDone
    /\ emb.timestamp = Empty
    /\ origin.shape = "joined" /\ WellFormed
    /\ type = Join /\ chan = target_channel
    /\ result = None

-----------------------------------------------------------------------------
(* Properties of the duration filter *)

FilterDone == fpc = "done"

Length(dur) == dur.left - dur.joined

Range(seq) == {seq[i] : i \in DOMAIN seq}

\* C14: the filter returns exactly the intervals with left - joined strictly
\* greater than the threshold, in their input order; with threshold 600 an
\* interval of exactly 600 seconds is removed and one of 601 seconds is kept.
C14_FilterStrictlyLonger ==
    FilterDone =>
        /\ kept = SelectSeq(intervals, LAMBDA x : Length(x) > 600)
        /\ \A i \in DOMAIN intervals :
            /\ Length(intervals[i]) = 600 => intervals[i] \notin Range(kept)
            /\ Length(intervals[i]) = 601 => intervals[i] \in Range(kept)

\* two different intervals of 601 seconds kept in their order around one of 600
C14_Witness ==
    /\ FilterDone
    /\ Len(intervals) = 3
    /\ Length(intervals[1]) = 601 /\ Length(intervals[2]) = 600
    /\ Length(intervals[3]) = 601
    /\ intervals[1] # intervals[3]
    /\ kept = <<intervals[1], intervals[3]>>

-----------------------------------------------------------------------------
(* Properties of the pipeline *)

\* the messages of the relay whose first embed classifies
Accepted ==
    {i \in DOMAIN history :
        /\ history[i].author = RelayBot
        /\ history[i].embeds # <<>>
        /\ from_embed(history[i].embeds[1], channel_name) # None}

\* the n-th smallest element of a set of positions
Nth(S, n) == CHOOSE i \in S : Cardinality({x \in S : x <= i}) = n

\* C15: a join record of user 1 on the target channel at T0 followed by a leave
\* record of user 1 at T0 + 3600 s, with window [T0 - 1 h, T0 + 2 h] and threshold
\* 600 s, ends as exactly one interval (1, T0, T0 + 3600 s); events reach
\* process_events in the order of their records, the unclassifiable skipped.
\* (T0 = 3600 s.)
C15_EndToEnd ==
    /\ ( /\ spc = "write"
         /\ history = <<Message(RelayBot, <<Embed(Said("joined", 1, Vc), <<3600>>)>>),
                        Message(RelayBot, <<Embed(Said("left", 1, Vc), <<7200>>)>>)>>
         /\ channel_name = Vc
         /\ stalk_start = 0 /\ now = 10800) =>
            stalk_durations = <<ConnectedDuration(1, 3600, 7200)>>
    /\ spc \in {"filter", "write"} =>
        /\ Len(events) = Cardinality(Accepted)
        /\ \A n \in DOMAIN events :
            events[n] = from_embed(history[Nth(Accepted, n)].embeds[1], channel_name)[1]

C15_Witness ==
    /\ spc = "write"
    /\ history = <<Message(RelayBot, <<Embed(Said("joined", 1, Vc), <<3600>>)>>),
                   Message(RelayBot, <<Embed(Said("left", 1, Vc), <<7200>>)>>)>>
    /\ stalk_start = 0 /\ now = 10800
    /\ events = <<StalkEvent(1, 3600, Join), StalkEvent(1, 7200, Leave)>>
    /\ stalk_durations = <<ConnectedDuration(1, 3600, 7200)>>

=============================================================================
